---- MODULE Spec2Model ----
(***************************************************************************)
(* A model of the ShuMao dictionary: the pinyin transliterator             *)
(* (src/convert.py, decode_pinyin) and the search pipeline of the web      *)
(* application (src/app.py, search).                                       *)
(*                                                                         *)
(* Text is a sequence of characters; a character is a one-token string.    *)
(* Glyphs outside ASCII are written with ASCII names:                      *)
(*     "uu"  u-umlaut               "UU"  capital u-umlaut                  *)
(*     "a1" .. "a4"   a with the mark of tone 1 .. 4 (macron, acute,       *)
(*                    caron, grave); likewise e, i, o, u, uu and the       *)
(*                    capitals "A1" .. "UU4".                              *)
(***************************************************************************)
EXTENDS Integers, Sequences, FiniteSets, TLC

VARIABLES
    \* ---- decode_pinyin (src/convert.py) ----
    s,              \* the argument of decode_pinyin
    new_words,      \* the list of converted syllables
    decoded,        \* the value decode_pinyin returns
    dpc,            \* "call" before the call, "returned" after it, "idle"
                    \* when the behaviour is a search request
    \* ---- search (src/app.py) ----
    db,             \* the rows of the dictionary table, in rowid order
    q,              \* the request's q argument, as sent
    page,           \* the request's page argument
    pc,             \* the place of the request in search
    all_results,    \* the hits (lines 62-114), then the merged results
    seen_ids,       \* the ids of the rows already among the hits
    hits,           \* history: the hits as they were when the merge began
    fts_failed,     \* history: the full-text lookup raised and was logged
    merged_results, \* the merge dictionary, in insertion order
    total_results,
    total_pages,
    paginated_results,
    ri,             \* enrichment loop: the result being enriched
    ci,             \* enrichment loop: the character being looked up
    char_cache,     \* the request's cache of single-character entries
    lookups,        \* history: the characters the store was asked for
    returned,       \* history: the row ids each of the three lookups returned
    response        \* "none", "index" or "results": the template rendered

dvars == <<s, new_words, decoded, dpc>>
svars == <<db, q, page, pc, all_results, seen_ids, hits, fts_failed,
           merged_results, total_results, total_pages, paginated_results,
           ri, ci, char_cache, lookups, returned, response>>
vars == <<dvars, svars>>

\* The history of the three lookups of a request: the ids of the rows each
\* strategy returned, kept when on is TRUE and left as it is otherwise.
NotRecorded == [on |-> FALSE, exact |-> {}, starts_with |-> {}, fts |-> {}]

Recorded == [on |-> TRUE, exact |-> {}, starts_with |-> {}, fts |-> {}]

\* The search variables while decode_pinyin is what runs.
SearchIdle ==
    /\ db = <<>> /\ q = <<>> /\ page = 1 /\ pc = "idle"
    /\ all_results = <<>> /\ seen_ids = {} /\ hits = <<>>
    /\ fts_failed = FALSE /\ merged_results = <<>>
    /\ total_results = 0 /\ total_pages = 0 /\ paginated_results = <<>>
    /\ ri = 1 /\ ci = 1 /\ char_cache = <<>> /\ lookups = <<>>
    /\ returned = NotRecorded
    /\ response = "none"

\* The transliterator's variables while a search request is what runs.
DecodeIdle == s = <<>> /\ new_words = <<>> /\ decoded = <<>> /\ dpc = "idle"

(***************************************************************************)
(* Characters                                                              *)
(***************************************************************************)
Digits == {"0", "1", "2", "3", "4", "5", "6", "7", "8", "9"}

DigitValue(c) ==
    CASE c = "0" -> 0 [] c = "1" -> 1 [] c = "2" -> 2 [] c = "3" -> 3
      [] c = "4" -> 4 [] c = "5" -> 5 [] c = "6" -> 6 [] c = "7" -> 7
      [] c = "8" -> 8 [] c = "9" -> 9

\* str.isdigit() of one character.
IsDigit(c) == c \in Digits

UpperOf ==
    [a |-> "A", e |-> "E", i |-> "I", o |-> "O", u |-> "U", v |-> "V",
     uu |-> "UU", n |-> "N", b |-> "B", c |-> "C",
     a1 |-> "A1", a2 |-> "A2", a3 |-> "A3", a4 |-> "A4",
     e1 |-> "E1", e2 |-> "E2", e3 |-> "E3", e4 |-> "E4",
     i1 |-> "I1", i2 |-> "I2", i3 |-> "I3", i4 |-> "I4",
     o1 |-> "O1", o2 |-> "O2", o3 |-> "O3", o4 |-> "O4",
     u1 |-> "U1", u2 |-> "U2", u3 |-> "U3", u4 |-> "U4",
     uu1 |-> "UU1", uu2 |-> "UU2", uu3 |-> "UU3", uu4 |-> "UU4"]

LowerLetters == DOMAIN UpperOf
UpperLetters == {UpperOf[c] : c \in LowerLetters}

\* str.isupper() of one character.
IsUpper(c) == c \in UpperLetters

\* str.upper() of one character: a character without case is kept.
Upper(c) == IF c \in LowerLetters THEN UpperOf[c] ELSE c

\* str.lower() of one character.
Lower(c) ==
    IF c \in UpperLetters THEN CHOOSE l \in LowerLetters : UpperOf[l] = c ELSE c

\* str.lower() of a text.
LowerText(t) == [k \in 1..Len(t) |-> Lower(t[k])]

(***************************************************************************)
(* Text helpers: the str methods the program calls                         *)
(***************************************************************************)
\* t[from:] in Python, with from counted from 1 here.
Tail_(t, from) == SubSeq(t, from, Len(t))

\* str.find(c) for a one-character c: the first position of c, 0 when absent
\* (Python's -1), positions counted from 1.
Find(t, c) ==
    IF \E k \in 1..Len(t) : t[k] = c
    THEN CHOOSE k \in 1..Len(t) : t[k] = c /\ \A j \in 1..(k - 1) : t[j] # c
    ELSE 0

\* c in t, for a one-character c.
Contains(t, c) == \E k \in 1..Len(t) : t[k] = c

\* "c1c2" in t, for a two-character text.
ContainsPair(t, c1, c2) == \E k \in 1..(Len(t) - 1) : t[k] = c1 /\ t[k + 1] = c2

\* t.replace("c1c2", r): every occurrence, left to right, not overlapping.
RECURSIVE ReplacePair(_, _, _, _)
ReplacePair(t, c1, c2, r) ==
    IF Len(t) < 2 THEN t
    ELSE IF t[1] = c1 /\ t[2] = c2
         THEN <<r>> \o ReplacePair(Tail_(t, 3), c1, c2, r)
         ELSE <<t[1]>> \o ReplacePair(Tail_(t, 2), c1, c2, r)

\* t.split(sep) for a one-character sep: the pieces between the separators,
\* empty pieces included; the split of the empty text is one empty piece.
RECURSIVE Split(_, _)
Split(t, sep) ==
    IF ~Contains(t, sep) THEN <<t>>
    ELSE LET k == Find(t, sep)
         IN  <<SubSeq(t, 1, k - 1)>> \o Split(Tail_(t, k + 1), sep)

\* sep.join(pieces).
RECURSIVE Join(_, _)
Join(pieces, sep) ==
    IF pieces = <<>> THEN <<>>
    ELSE IF Len(pieces) = 1 THEN pieces[1]
    ELSE pieces[1] \o <<sep>> \o Join(Tail(pieces), sep)

(***************************************************************************)
(* decode_pinyin                                                           *)
(***************************************************************************)
tone_marks ==
    [a  |-> <<"a1", "a2", "a3", "a4", "a">>,
     e  |-> <<"e1", "e2", "e3", "e4", "e">>,
     i  |-> <<"i1", "i2", "i3", "i4", "i">>,
     o  |-> <<"o1", "o2", "o3", "o4", "o">>,
     u  |-> <<"u1", "u2", "u3", "u4", "u">>,
     v  |-> <<"uu1", "uu2", "uu3", "uu4", "uu">>,
     uu |-> <<"uu1", "uu2", "uu3", "uu4", "uu">>]

vowels == {"a", "e", "i", "o", "u", "v", "uu"}

\* The tone and the base of a syllable: the trailing digit, when there is
\* one, is the tone and is cut off; without it the tone is 5.
ToneOf(word) ==
    IF IsDigit(word[Len(word)]) THEN DigitValue(word[Len(word)]) ELSE 5

BaseOf(word) ==
    LET raw == IF IsDigit(word[Len(word)])
               THEN SubSeq(word, 1, Len(word) - 1) ELSE word
    IN  ReplacePair(ReplacePair(raw, "u", ":", "uu"), "U", ":", "UU")

\* The position to mark, 0 when there is none (Python's -1).
IdxToMark(base) ==
    IF Contains(base, "a") THEN Find(base, "a")
    ELSE IF Contains(base, "e") THEN Find(base, "e")
    ELSE IF ContainsPair(base, "o", "u") THEN Find(base, "o")
    ELSE IF \E k \in 1..Len(base) : Lower(base[k]) \in vowels
         THEN CHOOSE k \in 1..Len(base) :
                  /\ Lower(base[k]) \in vowels
                  /\ \A j \in (k + 1)..Len(base) : Lower(base[j]) \notin vowels
         ELSE 0

\* The glyph that replaces char under the tone.
Replacement(char, tone) ==
    LET marked == tone_marks[Lower(char)][tone]
    IN  IF IsUpper(char) THEN Upper(marked) ELSE marked

\* DecodeWord with the fallback for an invalid tone appending base, the
\* syllable without its digit and with its digraphs rewritten.
DecodeWord_AppendsBase(word) ==
    LET tone == ToneOf(word)
        base == BaseOf(word)
        idx  == IdxToMark(base)
    IN  IF tone = 5 \/ tone < 1 \/ tone > 5 THEN base
        ELSE IF idx # 0 /\ Lower(base[idx]) \in DOMAIN tone_marks
             THEN SubSeq(base, 1, idx - 1)
                      \o <<Replacement(base[idx], tone)>>
                      \o Tail_(base, idx + 1)
             ELSE base

\* One turn of the loop for a non-empty word: what is appended to new_words.
DecodeWord(word) ==
    LET tone == ToneOf(word)
        base == BaseOf(word)
        idx  == IdxToMark(base)
    IN  IF tone < 1 \/ tone > 5 THEN word
        ELSE IF tone = 5 THEN base
        ELSE IF idx # 0 /\ Lower(base[idx]) \in DOMAIN tone_marks
             THEN SubSeq(base, 1, idx - 1)
                      \o <<Replacement(base[idx], tone)>>
                      \o Tail_(base, idx + 1)
             ELSE base

\* The loop over the words: empty words are skipped.
RECURSIVE DecodeWords(_)
DecodeWords(words) ==
    IF words = <<>> THEN <<>>
    ELSE IF words[1] = <<>> THEN DecodeWords(Tail(words))
    ELSE <<DecodeWord(words[1])>> \o DecodeWords(Tail(words))

\* ---- bounds and inputs of the transliterator ----
MaxLen == 5

PinyinAlphabet == {"a", "A", "e", "o", "u", ":", "2", "5", "0", "6", " "}

DecodeInit ==
    /\ \E k \in 0..MaxLen : s \in [1..k -> PinyinAlphabet]
    /\ new_words = <<>>
    /\ decoded = <<>>
    /\ dpc = "call"
    /\ SearchIdle

\* decode_pinyin(s), from the call to the return.
DecodePinyin ==
    /\ dpc = "call"
    /\ new_words' = DecodeWords(Split(s, " "))
    /\ decoded' = Join(new_words', " ")
    /\ dpc' = "returned"
    /\ UNCHANGED <<s, svars>>

DecodeNext == DecodePinyin

SpecDecode == DecodeInit /\ [][DecodeNext]_vars

(***************************************************************************)
(* Claims about decode_pinyin                                              *)
(***************************************************************************)
\* The syllables of a text: its non-empty space-separated pieces.
Syllables(t) == SelectSeq(Split(t, " "), LAMBDA w : w # <<>>)

LastChar(w) == w[Len(w)]

HasVowel(t) == \E k \in 1..Len(t) : Lower(t[k]) \in vowels

IsMarked(c) == \E v \in DOMAIN tone_marks, k \in 1..4 :
                   c = tone_marks[v][k] \/ c = Upper(tone_marks[v][k])

\* The position the priority rule names, a letter of either case counting
\* as its vowel: the first a, else the first e, else the o of "ou", else the
\* last vowel-class character.
RuleIdx(base) ==
    LET low == LowerText(base)
    IN  IF Contains(low, "a") THEN Find(low, "a")
        ELSE IF Contains(low, "e") THEN Find(low, "e")
        ELSE IF ContainsPair(low, "o", "u")
             THEN CHOOSE k \in 1..(Len(low) - 1) :
                      /\ low[k] = "o" /\ low[k + 1] = "u"
                      /\ \A j \in 1..(k - 1) : ~(low[j] = "o" /\ low[j + 1] = "u")
        ELSE CHOOSE k \in 1..Len(low) :
                 /\ low[k] \in vowels
                 /\ \A j \in (k + 1)..Len(low) : low[j] \notin vowels

\* C1 (as claimed): every syllable that ends in a tone digit 1..4 (and has a
\* vowel-class character to carry the mark) comes out with the digit removed
\* and exactly the character named by the priority rule replaced by its
\* tone-marked glyph of the same case, every other character unchanged.
C1_MarkOnRuleVowel ==
    dpc = "returned" =>
        LET W == Syllables(s)
        IN  /\ Len(new_words) = Len(W)
            /\ \A n \in 1..Len(W) :
                   LET base == BaseOf(W[n])
                       tone == ToneOf(W[n])
                       idx  == RuleIdx(base)
                   IN  (IsDigit(LastChar(W[n])) /\ tone \in 1..4 /\ HasVowel(base))
                           => /\ Len(new_words[n]) = Len(base)
                              /\ \A k \in 1..Len(base) :
                                     new_words[n][k] =
                                         IF k = idx
                                         THEN Replacement(base[k], tone)
                                         ELSE base[k]

InvalidToneDigits == {"0", "6", "7", "8", "9"}

\* C9: a syllable whose last character is a digit outside 1..5 is emitted
\* exactly as given, digit and "u:" digraph included; the other syllables of
\* the same input are still converted (digit 1..5 cut off, digraphs
\* rewritten), and the result is the syllables joined by single spaces.
C9_InvalidTonePassesThrough ==
    dpc = "returned" =>
        LET W == Syllables(s)
        IN  /\ Len(new_words) = Len(W)
            /\ decoded = Join(new_words, " ")
            /\ \A n \in 1..Len(W) :
                   LET w == W[n]
                       rewritten(t) ==
                           ReplacePair(ReplacePair(t, "u", ":", "uu"), "U", ":", "UU")
                   IN  /\ LastChar(w) \in InvalidToneDigits => new_words[n] = w
                       /\ LastChar(w) \in {"1", "2", "3", "4", "5"} =>
                              /\ Len(new_words[n])
                                     = Len(rewritten(SubSeq(w, 1, Len(w) - 1)))
                              /\ LastChar(w) = "5" =>
                                     new_words[n] = rewritten(SubSeq(w, 1, Len(w) - 1))
                       /\ LastChar(w) \notin Digits => new_words[n] = rewritten(w)

\* An input with an invalid-tone syllable of a letter and a digit, passed
\* through, and a second syllable that got its tone mark.
C9_Witness ==
    /\ dpc = "returned"
    /\ \E n, m \in 1..Len(new_words) :
           /\ LastChar(Syllables(s)[n]) \in InvalidToneDigits
           /\ HasVowel(Syllables(s)[n])
           /\ new_words[n] = Syllables(s)[n]
           /\ LastChar(Syllables(s)[m]) = "2"
           /\ \E k \in 1..Len(new_words[m]) : IsMarked(new_words[m][k])

(***************************************************************************)
(* search: more of the str and list methods the program calls              *)
(***************************************************************************)
\* str.strip(): leading and trailing blanks removed.
RECURSIVE Strip(_)
Strip(t) ==
    IF t = <<>> THEN t
    ELSE IF t[1] = " " THEN Strip(Tail(t))
    ELSE IF t[Len(t)] = " " THEN Strip(SubSeq(t, 1, Len(t) - 1))
    ELSE t

\* The set of the entries of a list.
Range(list) == {list[k] : k \in 1..Len(list)}

\* The code points of the script characters of the model, in their order.
CodePoint == [X |-> 1, Y |-> 2, Z |-> 3]

\* a < b for two texts of script characters, as Python compares str.
RECURSIVE TextLess(_, _)
TextLess(a, b) ==
    IF b = <<>> THEN FALSE
    ELSE IF a = <<>> THEN TRUE
    ELSE IF a[1] # b[1] THEN CodePoint[a[1]] < CodePoint[b[1]]
    ELSE TextLess(Tail(a), Tail(b))

\* sorted(list(a set of texts)).
RECURSIVE SortedTexts(_)
SortedTexts(set) ==
    IF set = {} THEN <<>>
    ELSE LET least == CHOOSE a \in set : \A b \in set \ {a} : TextLess(a, b)
         IN  <<least>> \o SortedTexts(set \ {least})

\* " / ".join(texts).
RECURSIVE JoinSlash(_)
JoinSlash(texts) ==
    IF texts = <<>> THEN <<>>
    ELSE IF Len(texts) = 1 THEN texts[1]
    ELSE texts[1] \o <<" ", "/", " ">> \o JoinSlash(Tail(texts))

\* list[start:end] as Python slices a list, indices counted from 0 and a
\* negative index counted from the end.
Slice(list, start, end) ==
    LET n == Len(list)
        clamp(k) == IF k < 0 THEN (IF k + n < 0 THEN 0 ELSE k + n)
                    ELSE (IF k > n THEN n ELSE k)
        lo == clamp(start)
        hi == clamp(end)
    IN  IF lo < hi THEN SubSeq(list, lo + 1, hi) ELSE <<>>

(***************************************************************************)
(* search: the three lookups and add_unique_results                        *)
(*                                                                         *)
(* A row of db is a row of the dictionary table; its field rank is the     *)
(* rank the full-text index gives the row for the request's query (the     *)
(* column f.rank of the full-text SELECT).  The SELECTs are answered by    *)
(* the store: an answer is any selection of rows of db, in rowid order for *)
(* the exact and prefix lookups and in rank order for the full-text one.   *)
(***************************************************************************)
\* query = request.args.get('q', '').strip()
query == Strip(q)

\* The rows of list at the positions of idx, in the order of list.
RECURSIVE RowsAt(_, _, _)
RowsAt(list, idx, k) ==
    IF k > Len(list) THEN <<>>
    ELSE (IF k \in idx THEN <<list[k]>> ELSE <<>>) \o RowsAt(list, idx, k + 1)

\* Every answer the store can give to a SELECT over db.
Answers == {RowsAt(db, idx, 1) : idx \in SUBSET (1..Len(db))}

\* ORDER BY rank: ascending, rows of equal rank in rowid order.
RECURSIVE InsertByRank(_, _)
InsertByRank(sorted, row) ==
    IF sorted = <<>> THEN <<row>>
    ELSE IF row.rank < sorted[1].rank THEN <<row>> \o sorted
    ELSE <<sorted[1]>> \o InsertByRank(Tail(sorted), row)

RECURSIVE OrderByRank(_)
OrderByRank(rows) ==
    IF rows = <<>> THEN <<>>
    ELSE InsertByRank(OrderByRank(SubSeq(rows, 1, Len(rows) - 1)), rows[Len(rows)])

\* dict(row) with the match type; the full-text SELECT alone has the column
\* fts_rank.
Hit(row, match_type) ==
    [id |-> row.id, traditional |-> row.traditional,
     simplified |-> row.simplified, pinyin_marks |-> row.pinyin_marks,
     definitions |-> row.definitions, has_examples |-> row.has_examples,
     has_stroke |-> row.has_stroke, hsk_level |-> row.hsk_level,
     match_type |-> match_type,
     has_fts_rank |-> (match_type = "fts"),
     fts_rank |-> IF match_type = "fts" THEN row.rank ELSE 0]

\* add_unique_results(new_rows, match_type): the pair of all_results and
\* seen_ids after the call.
RECURSIVE add_unique_results(_, _, _, _)
add_unique_results(results, seen, new_rows, match_type) ==
    IF new_rows = <<>> THEN <<results, seen>>
    ELSE LET row == new_rows[1]
         IN  IF row.id \notin seen
             THEN add_unique_results(Append(results, Hit(row, match_type)),
                                     seen \cup {row.id}, Tail(new_rows), match_type)
             ELSE add_unique_results(results, seen, Tail(new_rows), match_type)

\* The history of the lookups after strategy has returned new_rows.
Returned(strategy, new_rows) ==
    IF returned.on
    THEN [returned EXCEPT ![strategy] = {new_rows[k].id : k \in 1..Len(new_rows)}]
    ELSE returned

(***************************************************************************)
(* search: the merge                                                       *)
(***************************************************************************)
\* priority_map with the first two priorities exchanged.
priority_map_Swapped == [exact |-> 1, starts_with |-> 0, fts |-> 2, other |-> 3]

priority_map == [exact |-> 0, starts_with |-> 1, fts |-> 2, other |-> 3]

\* The key of the group of a hit.
KeyOf(result) == <<result.simplified, LowerText(result.pinyin_marks)>>

\* The first hit of a key: the hit itself with the two merge fields.
Seed(result) ==
    [id |-> result.id, traditional |-> result.traditional,
     simplified |-> result.simplified, pinyin_marks |-> result.pinyin_marks,
     definitions |-> result.definitions, has_examples |-> result.has_examples,
     has_stroke |-> result.has_stroke, hsk_level |-> result.hsk_level,
     match_type |-> result.match_type,
     has_fts_rank |-> result.has_fts_rank, fts_rank |-> result.fts_rank,
     traditional_variants |-> {result.traditional},
     definition_list |-> Split(result.definitions, "/")]

\* for d in new_defs: if d and d not in existing['definition_list']: append
RECURSIVE AppendNewDefs(_, _)
AppendNewDefs(definition_list, new_defs) ==
    IF new_defs = <<>> THEN definition_list
    ELSE LET d == new_defs[1]
         IN  IF d # <<>> /\ d \notin Range(definition_list)
             THEN AppendNewDefs(Append(definition_list, d), Tail(new_defs))
             ELSE AppendNewDefs(definition_list, Tail(new_defs))

\* a or b, for two 0/1 flags.
Or(a, b) == IF a # 0 THEN a ELSE b

Min(a, b) == IF a <= b THEN a ELSE b

\* MergeInto taking the match type of the hit merged last.
MergeInto_TakesLast(existing, result) ==
    LET l1 == existing.hsk_level
        l2 == result.hsk_level
    IN  [existing EXCEPT
            !.traditional_variants = @ \cup {result.traditional},
            !.definition_list = AppendNewDefs(@, Split(result.definitions, "/")),
            !.has_examples = Or(@, result.has_examples),
            !.has_stroke = Or(@, result.has_stroke),
            !.hsk_level = IF l1 = 0 THEN l2 ELSE IF l2 # 0 THEN Min(l1, l2) ELSE l1,
            !.match_type = result.match_type,
            !.has_fts_rank = @ \/ result.has_fts_rank,
            !.fts_rank = IF result.has_fts_rank THEN result.fts_rank ELSE @]

\* A later hit of a key merged into the entry of the key.
MergeInto(existing, result) ==
    LET better == priority_map[result.match_type]
                      < priority_map[existing.match_type]
        l1 == existing.hsk_level
        l2 == result.hsk_level
    IN  [existing EXCEPT
            !.traditional_variants = @ \cup {result.traditional},
            !.definition_list = AppendNewDefs(@, Split(result.definitions, "/")),
            !.has_examples = Or(@, result.has_examples),
            !.has_stroke = Or(@, result.has_stroke),
            !.hsk_level = IF l1 = 0 THEN l2 ELSE IF l2 # 0 THEN Min(l1, l2) ELSE l1,
            !.match_type = IF better THEN result.match_type ELSE @,
            !.has_fts_rank = @ \/ (better /\ result.has_fts_rank),
            !.fts_rank = IF better /\ result.has_fts_rank THEN result.fts_rank ELSE @]

\* The merge loop over the hits, from the dictionary merged so far.
RECURSIVE MergeAll(_, _)
MergeAll(merged, results) ==
    IF results = <<>> THEN merged
    ELSE LET result == results[1]
             at == {k \in 1..Len(merged) : KeyOf(merged[k]) = KeyOf(result)}
         IN  IF at = {}
             THEN MergeAll(Append(merged, Seed(result)), Tail(results))
             ELSE LET k == CHOOSE k \in at : TRUE
                  IN  MergeAll([merged EXCEPT ![k] = MergeInto(@, result)],
                               Tail(results))

\* The merged fields joined back into the entry.
Finalize(entry) ==
    [entry EXCEPT
        !.traditional = JoinSlash(SortedTexts(entry.traditional_variants)),
        !.definitions = Join(entry.definition_list, "/")]

(***************************************************************************)
(* search: the score and the sort                                          *)
(***************************************************************************)
\* score_result comparing the glosses untrimmed.
score_result_Untrimmed(result) ==
    LET match_type == result.match_type
        priority == priority_map[match_type]
        data_score == (IF result.has_examples = 0 THEN 2 ELSE 0)
                          + (IF result.has_stroke = 0 THEN 5 ELSE 0)
        hsk_score == IF result.hsk_level > 0 THEN result.hsk_level ELSE 10
        length == Len(result.simplified)
        defs == Split(LowerText(result.definitions), "/")
        exact_def_bonus ==
            IF match_type = "fts" /\ LowerText(query) \in Range(defs)
            THEN -10 ELSE 0
    IN  <<priority, exact_def_bonus, hsk_score, data_score, result.fts_rank, length>>

\* score_result(result): the sort key.
score_result(result) ==
    LET match_type == result.match_type
        priority == priority_map[match_type]
        data_score == (IF result.has_examples = 0 THEN 2 ELSE 0)
                          + (IF result.has_stroke = 0 THEN 5 ELSE 0)
        hsk_score == IF result.hsk_level > 0 THEN result.hsk_level ELSE 10
        length == Len(result.simplified)
        defs == Split(LowerText(result.definitions), "/")
        exact_def_bonus ==
            IF match_type = "fts" /\ LowerText(query) \in {Strip(d) : d \in Range(defs)}
            THEN -10 ELSE 0
    IN  <<priority, exact_def_bonus, hsk_score, data_score, result.fts_rank, length>>

\* a < b for two sort keys, as Python compares tuples.
RECURSIVE TupleLess(_, _)
TupleLess(a, b) ==
    IF a = <<>> THEN FALSE
    ELSE IF a[1] # b[1] THEN a[1] < b[1]
    ELSE TupleLess(Tail(a), Tail(b))

\* list.sort(key=score_result): ascending and stable.
RECURSIVE InsertByScore(_, _)
InsertByScore(sorted, result) ==
    IF sorted = <<>> THEN <<result>>
    ELSE IF TupleLess(score_result(result), score_result(sorted[1]))
         THEN <<result>> \o sorted
         ELSE <<sorted[1]>> \o InsertByScore(Tail(sorted), result)

RECURSIVE SortByScore(_)
SortByScore(list) ==
    IF list = <<>> THEN <<>>
    ELSE InsertByScore(SortByScore(SubSeq(list, 1, Len(list) - 1)), list[Len(list)])

(***************************************************************************)
(* search: the page and the enrichment                                     *)
(***************************************************************************)
RESULTS_PER_PAGE == 20

\* TotalPages by floor division.
TotalPages_Floor(total) == total \div RESULTS_PER_PAGE

\* total_pages, by ceiling division.
TotalPages(total) == (total + RESULTS_PER_PAGE - 1) \div RESULTS_PER_PAGE

\* all_results[start_idx:end_idx]
PageSlice(list, p) ==
    LET start_idx == (p - 1) * RESULTS_PER_PAGE
        end_idx == start_idx + RESULTS_PER_PAGE
    IN  Slice(list, start_idx, end_idx)

NotAvailable == <<"N", "/", "A">>

\* The item of a character with a single-character entry: the row and its
\* first three glosses.
CharInfo(row) ==
    [id |-> row.id, traditional |-> row.traditional,
     simplified |-> row.simplified, pinyin_marks |-> row.pinyin_marks,
     definitions |-> row.definitions, has_examples |-> row.has_examples,
     has_stroke |-> row.has_stroke, hsk_level |-> row.hsk_level,
     short_definitions |->
         Join(Slice(Split(row.definitions, "/"), 0, 3), "/")]

\* The item of a character without one.
Placeholder(char) ==
    [simplified |-> <<char>>, traditional |-> <<char>>, pinyin_marks |-> <<>>,
     definitions |-> NotAvailable, short_definitions |-> NotAvailable]

\* The rows that answer
\* SELECT * FROM dictionary WHERE simplified = ? AND length(simplified) = 1.
SingleCharRows(char) ==
    {k \in 1..Len(db) : db[k].simplified = <<char>>}

\* BrokenDown with the bound off by one.
BrokenDown_FromOne(simplified) == Len(simplified) >= 1

\* len(char_to_search) >= 2: the word is broken down.
BrokenDown(simplified) == Len(simplified) >= 2

\* The result of the page with its breakdown list, empty at first.
PageItem(result) ==
    [entry |-> result, character_breakdown |-> <<>>]

(***************************************************************************)
(* search: the actions                                                     *)
(***************************************************************************)
hvars == <<s, new_words, decoded, dpc, db, q, page>>

\* if not query: return render_template('index.html')
SearchEmpty ==
    /\ pc = "start"
    /\ query = <<>>
    /\ pc' = "done"
    /\ response' = "index"
    /\ UNCHANGED <<hvars, returned, all_results, seen_ids, hits, fts_failed, merged_results,
                   total_results, total_pages, paginated_results, ri, ci,
                   char_cache, lookups>>

\* 1. Exact matches.
MatchExact ==
    /\ pc = "start"
    /\ query # <<>>
    /\ \E exact_rows \in Answers :
           LET after == add_unique_results(all_results, seen_ids, exact_rows, "exact")
           IN  /\ all_results' = after[1] /\ seen_ids' = after[2]
               /\ returned' = Returned("exact", exact_rows)
    /\ pc' = "prefix"
    /\ UNCHANGED <<hvars, hits, fts_failed, merged_results, total_results,
                   total_pages, paginated_results, ri, ci, char_cache, lookups,
                   response>>

\* 2. Starts with.
MatchStartsWith ==
    /\ pc = "prefix"
    /\ \E start_rows \in Answers :
           LET after == add_unique_results(all_results, seen_ids, start_rows,
                                           "starts_with")
           IN  /\ all_results' = after[1] /\ seen_ids' = after[2]
               /\ returned' = Returned("starts_with", start_rows)
    /\ pc' = "fts"
    /\ UNCHANGED <<hvars, hits, fts_failed, merged_results, total_results,
                   total_pages, paginated_results, ri, ci, char_cache, lookups,
                   response>>

\* 3. English FTS, when the lookup returns.
MatchFts ==
    /\ pc = "fts"
    /\ \E rows \in Answers :
           LET after == add_unique_results(all_results, seen_ids,
                                           OrderByRank(rows), "fts")
           IN  /\ all_results' = after[1] /\ seen_ids' = after[2]
               /\ returned' = Returned("fts", rows)
    /\ pc' = "merge"
    /\ UNCHANGED <<hvars, hits, fts_failed, merged_results, total_results,
                   total_pages, paginated_results, ri, ci, char_cache, lookups,
                   response>>

\* MatchFtsError with a handler that gives up the hits found so far.
MatchFtsError_DropsHits ==
    /\ pc = "fts"
    /\ fts_failed' = TRUE
    /\ all_results' = <<>>
    /\ seen_ids' = {}
    /\ pc' = "merge"
    /\ UNCHANGED <<hvars, returned, hits, merged_results,
                   total_results, total_pages, paginated_results, ri, ci,
                   char_cache, lookups, response>>

\* 3. English FTS, when query_db raises: the handler prints and goes on.
MatchFtsError ==
    /\ pc = "fts"
    /\ fts_failed' = TRUE
    /\ pc' = "merge"
    /\ UNCHANGED <<hvars, returned, all_results, seen_ids, hits, merged_results,
                   total_results, total_pages, paginated_results, ri, ci,
                   char_cache, lookups, response>>

\* The merging logic and the conversion back to a list.
Merge ==
    /\ pc = "merge"
    /\ hits' = all_results
    /\ merged_results' = MergeAll(<<>>, all_results)
    /\ all_results' = [k \in 1..Len(merged_results') |-> Finalize(merged_results'[k])]
    /\ pc' = "sort"
    /\ UNCHANGED <<hvars, returned, seen_ids, fts_failed, total_results, total_pages,
                   paginated_results, ri, ci, char_cache, lookups, response>>

\* all_results.sort(key=score_result)
Sort ==
    /\ pc = "sort"
    /\ all_results' = SortByScore(all_results)
    /\ pc' = "paginate"
    /\ UNCHANGED <<hvars, returned, seen_ids, hits, fts_failed, merged_results,
                   total_results, total_pages, paginated_results, ri, ci,
                   char_cache, lookups, response>>

\* Pagination.
Paginate ==
    /\ pc = "paginate"
    /\ total_results' = Len(all_results)
    /\ total_pages' = TotalPages(Len(all_results))
    /\ paginated_results' =
           LET slice == PageSlice(all_results, page)
           IN  [k \in 1..Len(slice) |-> PageItem(slice[k])]
    /\ char_cache' = <<>>
    /\ ri' = 1 /\ ci' = 1
    /\ pc' = "enrich"
    /\ UNCHANGED <<hvars, returned, all_results, seen_ids, hits, fts_failed, merged_results,
                   lookups, response>>

\* One turn of the loop over the characters of a result of two or more
\* characters.
EnrichChar ==
    /\ pc = "enrich"
    /\ ri <= Len(paginated_results)
    /\ LET char_to_search == paginated_results[ri].entry.simplified
       IN  /\ BrokenDown(char_to_search)
           /\ ci <= Len(char_to_search)
           /\ LET char == char_to_search[ci]
                  add(item) ==
                      paginated_results' =
                          [paginated_results EXCEPT
                              ![ri].character_breakdown = Append(@, item)]
              IN  IF char \in DOMAIN char_cache
                  THEN /\ add(char_cache[char])
                       /\ UNCHANGED <<char_cache, lookups>>
                  ELSE /\ lookups' = Append(lookups, char)
                       /\ IF SingleCharRows(char) # {}
                          THEN \E k \in SingleCharRows(char) :
                                   /\ add(CharInfo(db[k]))
                                   /\ char_cache' =
                                          [c \in DOMAIN char_cache \cup {char} |->
                                              IF c = char THEN CharInfo(db[k])
                                              ELSE char_cache[c]]
                          ELSE /\ add(Placeholder(char))
                               /\ UNCHANGED char_cache
    /\ ci' = ci + 1
    /\ UNCHANGED <<hvars, returned, pc, all_results, seen_ids, hits, fts_failed,
                   merged_results, total_results, total_pages, ri, response>>

\* The end of the turn for one result: the scoring field is removed.
EnrichNextResult ==
    /\ pc = "enrich"
    /\ ri <= Len(paginated_results)
    /\ LET char_to_search == paginated_results[ri].entry.simplified
       IN  ~BrokenDown(char_to_search) \/ ci > Len(char_to_search)
    /\ paginated_results' =
           [paginated_results EXCEPT ![ri].entry.match_type = "removed"]
    /\ ri' = ri + 1
    /\ ci' = 1
    /\ UNCHANGED <<hvars, returned, pc, all_results, seen_ids, hits, fts_failed,
                   merged_results, total_results, total_pages, char_cache,
                   lookups, response>>

\* return render_template('results.html', ...)
Render ==
    /\ pc = "enrich"
    /\ ri > Len(paginated_results)
    /\ pc' = "done"
    /\ response' = "results"
    /\ UNCHANGED <<hvars, returned, all_results, seen_ids, hits, fts_failed, merged_results,
                   total_results, total_pages, paginated_results, ri, ci,
                   char_cache, lookups>>

(***************************************************************************)
(* search: the requests of the model                                       *)
(***************************************************************************)
MaxRows == 2

\* A request as it arrives: a dictionary of up to MaxRows rows, each of one
\* of the shapes, and the two arguments.
SearchStart(shapes, queries, pages) ==
    /\ DecodeIdle
    /\ \E n \in 0..MaxRows : \E shape \in [1..n -> shapes] :
           db = [k \in 1..n |-> [id |-> k] @@ shape[k]]
    /\ q \in queries
    /\ page \in pages
    /\ pc = "start"
    /\ all_results = <<>> /\ seen_ids = {} /\ hits = <<>>
    /\ fts_failed = FALSE /\ merged_results = <<>>
    /\ total_results = 0 /\ total_pages = 0 /\ paginated_results = <<>>
    /\ ri = 1 /\ ci = 1 /\ char_cache = <<>> /\ lookups = <<>>
    /\ response = "none"

\* A request whose lookups are not recorded.
SearchInit(shapes, queries, pages) ==
    SearchStart(shapes, queries, pages) /\ returned = NotRecorded

ThroughMerge ==
    \/ SearchEmpty \/ MatchExact \/ MatchStartsWith \/ MatchFts \/ MatchFtsError
    \/ Merge

ThroughSort == ThroughMerge \/ Sort

SearchNext == ThroughSort \/ Paginate \/ EnrichChar \/ EnrichNextResult \/ Render

\* ---- the whole request, over words of one and two characters ----
WordShapes ==
    [traditional : {<<"Z">>},
     simplified : {<<"X">>, <<"Y">>, <<"X", "Y">>, <<"Y", "Y">>},
     pinyin_marks : {<<"n", "i3">>},
     definitions : {<<"a", "/", "b", "/", "c", "/", "d">>, <<"a">>},
     has_examples : {1}, has_stroke : {1}, hsk_level : {0}, rank : {-1}]

Spec == SearchInit(WordShapes, {<<"a">>, <<" ">>}, {1, 2}) /\ [][SearchNext]_vars

(***************************************************************************)
(* Claims about the whole request                                          *)
(***************************************************************************)
MatchTypesOf(list) == {list[k].match_type : k \in 1..Len(list)}

\* C7: when the full-text lookup raises, the hits of the exact and prefix
\* lookups stay as they are, match types included, no hit is tagged fts,
\* the request goes on with the merge and ends with the results page.
C7_FtsErrorIsSwallowed ==
    /\ [][(pc = "fts" /\ fts_failed')
              => (all_results' = all_results /\ seen_ids' = seen_ids
                  /\ pc' = "merge")]_vars
    /\ [](fts_failed =>
              /\ pc = "merge" => MatchTypesOf(all_results) \subseteq {"exact", "starts_with"}
              /\ MatchTypesOf(hits) \subseteq {"exact", "starts_with"}
              /\ pc \in {"merge", "sort", "paginate", "enrich", "done"}
              /\ pc = "done" => response = "results")

\* A request whose full-text lookup raised after both other lookups found
\* rows, at its end.
C7_Witness ==
    /\ fts_failed
    /\ pc = "done"
    /\ response = "results"
    /\ MatchTypesOf(hits) = {"exact", "starts_with"}

\* The item is the single-character entry row of db.
IsEntryOf(item, row) ==
    /\ "id" \in DOMAIN item
    /\ item.id = row.id
    /\ item.simplified = row.simplified
    /\ item.traditional = row.traditional
    /\ item.pinyin_marks = row.pinyin_marks
    /\ item.definitions = row.definitions

\* C8: on the page returned, a result of fewer than 2 characters has an
\* empty breakdown; any other has one item per character, in order: the
\* single-character entry of the character, or, when db has none, the
\* placeholder with the character and definitions N/A.  No result of the
\* page is lost.
C8_BreakdownPerCharacter ==
    (pc = "done" /\ response = "results") =>
        LET slice == PageSlice(all_results, page)
        IN  /\ Len(paginated_results) = Len(slice)
            /\ \A n \in 1..Len(paginated_results) :
                   LET simplified == paginated_results[n].entry.simplified
                       breakdown == paginated_results[n].character_breakdown
                   IN  /\ paginated_results[n].entry.id = slice[n].id
                       /\ simplified = slice[n].simplified
                       /\ IF Len(simplified) < 2 THEN breakdown = <<>>
                          ELSE /\ Len(breakdown) = Len(simplified)
                               /\ \A k \in 1..Len(simplified) :
                                      LET rows == {j \in 1..Len(db) :
                                                       db[j].simplified = <<simplified[k]>>}
                                      IN  IF rows # {}
                                          THEN \E j \in rows : IsEntryOf(breakdown[k], db[j])
                                          ELSE /\ "id" \notin DOMAIN breakdown[k]
                                               /\ breakdown[k].simplified = <<simplified[k]>>
                                               /\ breakdown[k].definitions = NotAvailable

\* A page with a one-character result and a two-character result whose
\* first character has an entry and whose second has none.
C8_Witness ==
    /\ pc = "done"
    /\ response = "results"
    /\ \E n, m \in 1..Len(paginated_results) :
           /\ Len(paginated_results[n].entry.simplified) = 1
           /\ paginated_results[n].character_breakdown = <<>>
           /\ Len(paginated_results[m].character_breakdown) = 2
           /\ "id" \in DOMAIN paginated_results[m].character_breakdown[1]
           /\ "id" \notin DOMAIN paginated_results[m].character_breakdown[2]

\* C10 (as claimed): within a request the store is asked for the
\* single-character entry of a character at most once, whether it has one
\* or not.
C10_OneLookupPerCharacter ==
    \A i, j \in 1..Len(lookups) : i # j => lookups[i] # lookups[j]

(***************************************************************************)
(* The request up to the merge, over rows that share keys                  *)
(***************************************************************************)
MergeDefinitions ==
    {<<"a", "/", "b">>, <<"b", "/", "a", "/", "b">>, <<"c">>, <<>>}

MergeShapes ==
    [traditional : {<<"X">>, <<"Z">>}, simplified : {<<"X">>},
     pinyin_marks : {<<"n", "i3">>}, definitions : MergeDefinitions,
     has_examples : {1}, has_stroke : {1}, hsk_level : {0}, rank : {-1}]
    \cup
    [traditional : {<<"X">>}, simplified : {<<"X">>},
     pinyin_marks : {<<"N", "i3">>, <<"n", "a3">>}, definitions : MergeDefinitions,
     has_examples : {1}, has_stroke : {1}, hsk_level : {0}, rank : {-1}]

SpecMerge ==
    SearchInit(MergeShapes, {<<"a">>, <<" ">>}, {1}) /\ [][ThroughMerge]_vars

\* The merge is over: merged_results is the dictionary of the hits.
Merged == pc \in {"sort", "paginate", "enrich"} \/ (pc = "done" /\ response = "results")

\* The glosses that are not empty, in order.
NonEmpty(list) == SelectSeq(list, LAMBDA d : d # <<>>)

\* The list without the later occurrences of its entries.
RECURSIVE FirstAppearances(_)
FirstAppearances(list) ==
    IF list = <<>> THEN <<>>
    ELSE LET front == FirstAppearances(SubSeq(list, 1, Len(list) - 1))
         IN  IF list[Len(list)] \in Range(front) THEN front
             ELSE Append(front, list[Len(list)])

\* The glosses of the hits of a key, hit after hit.
RECURSIVE GlossesOf(_, _)
GlossesOf(key, list) ==
    IF list = <<>> THEN <<>>
    ELSE (IF KeyOf(list[1]) = key THEN Split(list[1].definitions, "/") ELSE <<>>)
             \o GlossesOf(key, Tail(list))

\* C2 (as claimed): two hits of one key give the same set of glosses
\* whichever of them is merged first.
C2_MergeOrderKeepsGlossSet ==
    Merged =>
        \A a, b \in 1..Len(hits) :
            (a # b /\ KeyOf(hits[a]) = KeyOf(hits[b])) =>
                Range(MergeAll(<<>>, <<hits[a], hits[b]>>)[1].definition_list)
                    = Range(MergeAll(<<>>, <<hits[b], hits[a]>>)[1].definition_list)

\* C3 (as claimed): after the merge no definition_list holds a gloss twice,
\* and each lists the glosses of the hits of its key in the order of their
\* first appearance, whatever the first hit and the later hits hold.
C3_DefinitionListDeduplicated ==
    Merged =>
        \A n \in 1..Len(merged_results) :
            LET list == merged_results[n].definition_list
            IN  /\ \A i, j \in 1..Len(list) : i # j => list[i] # list[j]
                /\ NonEmpty(list)
                       = FirstAppearances(NonEmpty(GlossesOf(KeyOf(merged_results[n]), hits)))

(***************************************************************************)
(* The request up to the merge, with the answers of the lookups recorded   *)
(***************************************************************************)
\* Rows of one word under three spellings of the pinyin, two of them one
\* key, with two full-text ranks.
TagShapes ==
    [traditional : {<<"X">>}, simplified : {<<"X">>},
     pinyin_marks : {<<"n", "i3">>, <<"N", "i3">>, <<"n", "a3">>},
     definitions : {<<"a">>},
     has_examples : {1}, has_stroke : {1}, hsk_level : {0}, rank : {-1, 0}]

SpecMatch ==
    /\ SearchStart(TagShapes, {<<"a">>, <<" ">>}, {1})
    /\ returned = Recorded
    /\ [][ThroughMerge]_vars

Strategies == {"exact", "starts_with", "fts"}

\* The order of the strategies: exact before starts_with before fts.
StrategyOrder == <<"exact", "starts_with", "fts">>

Before(a, b) ==
    \E i, j \in 1..Len(StrategyOrder) :
        StrategyOrder[i] = a /\ StrategyOrder[j] = b /\ i < j

\* The strategies that returned the row of this id.
ReturnedRow(id) == {st \in Strategies : id \in returned[st]}

\* The strategies that returned a row of the group of this key.
ReturnedGroup(key) ==
    {st \in Strategies :
        \E k \in 1..Len(db) : db[k].id \in returned[st] /\ KeyOf(db[k]) = key}

\* st is the first, in the order of the strategies, of the set.
FirstOf(st, set) == st \in set /\ \A other \in set : ~Before(other, st)

\* C11: after the match and the merge, every row a lookup returned is a
\* hit once, tagged with the first strategy that returned it, and every
\* merged result has the match type of the highest-priority strategy that
\* returned a row of its group.
C11_MergedMatchType ==
    (pc = "sort" /\ returned.on) =>
        /\ \A i, j \in 1..Len(hits) : hits[i].id = hits[j].id => i = j
        /\ \A i \in 1..Len(hits) :
               FirstOf(hits[i].match_type, ReturnedRow(hits[i].id))
        /\ \A st \in Strategies : \A id \in returned[st] :
               /\ \E i \in 1..Len(hits) : hits[i].id = id
               /\ \E k \in 1..Len(db) : db[k].id = id
                      /\ \E n \in 1..Len(merged_results) :
                             KeyOf(merged_results[n]) = KeyOf(db[k])
        /\ \A n \in 1..Len(merged_results) :
               FirstOf(merged_results[n].match_type,
                       ReturnedGroup(KeyOf(merged_results[n])))

\* A merged result of match type exact whose group has an exact hit that
\* the full-text lookup returned again, and a later hit tagged fts.
C11_Witness ==
    /\ pc = "sort" /\ returned.on
    /\ \E n \in 1..Len(merged_results) : \E i, j \in 1..Len(hits) :
           /\ i < j
           /\ KeyOf(hits[i]) = KeyOf(merged_results[n])
           /\ KeyOf(hits[j]) = KeyOf(merged_results[n])
           /\ hits[i].match_type = "exact"
           /\ hits[i].id \in returned.fts
           /\ hits[j].match_type = "fts"
           /\ merged_results[n].match_type = "exact"

(***************************************************************************)
(* The request up to the sort, over rows that differ in their scores       *)
(***************************************************************************)
ScoreShapes ==
    [traditional : {<<"Z">>}, simplified : {<<"X">>, <<"Y">>},
     pinyin_marks : {<<"n", "i3">>},
     definitions : {<<"a", "b">>, <<"b", "/", " ", "A">>},
     has_examples : {1}, has_stroke : {1}, hsk_level : {0, 1}, rank : {-1, 0}]

SpecSort ==
    SearchInit(ScoreShapes, {<<" ", "A">>, <<" ">>}, {1}) /\ [][ThroughSort]_vars

\* The sort is over and the scoring field still there.
Sorted == pc = "paginate"

\* The score components after the match-type priority.
OtherComponents(result) == Tail(score_result(result))

\* C4: in the sorted list an exact result stands before a starts_with
\* result, and a starts_with result before an fts result, when the two are
\* equal in every other score component.
C4_MatchTypeOrder ==
    Sorted =>
        \A i, j \in 1..Len(all_results) :
            LET a == all_results[i]
                b == all_results[j]
            IN  (/\ <<a.match_type, b.match_type>>
                        \in {<<"exact", "starts_with">>, <<"starts_with", "fts">>,
                             <<"exact", "fts">>}
                 /\ OtherComponents(a) = OtherComponents(b))
                    => i < j

\* The sorted list holds a starts_with result before an fts result of a
\* smaller row id that equals it in every other component of the sort key.
C4_Witness ==
    /\ Sorted
    /\ Len(all_results) = 2
    /\ all_results[1].match_type = "starts_with"
    /\ all_results[2].match_type = "fts"
    /\ OtherComponents(all_results[1]) = OtherComponents(all_results[2])
    /\ all_results[1].id > all_results[2].id

\* A gloss of the result, trimmed and lowercased, is the lowercased query.
HasExactGloss(result) ==
    \E k \in 1..Len(result.definition_list) :
        LowerText(Strip(result.definition_list[k])) = LowerText(query)

\* C5: in the sorted list an fts result with a gloss that is the query
\* stands before an fts result without one that equals it in HSK level,
\* has_examples, has_stroke, relevance rank and length; a result that is
\* not fts has no bonus.
C5_ExactGlossBonus ==
    Sorted =>
        /\ \A i, j \in 1..Len(all_results) :
               LET a == all_results[i]
                   b == all_results[j]
               IN  (/\ a.match_type = "fts" /\ b.match_type = "fts"
                    /\ HasExactGloss(a) /\ ~HasExactGloss(b)
                    /\ a.hsk_level = b.hsk_level
                    /\ a.has_examples = b.has_examples
                    /\ a.has_stroke = b.has_stroke
                    /\ a.fts_rank = b.fts_rank
                    /\ Len(a.simplified) = Len(b.simplified))
                       => i < j
        /\ \A i \in 1..Len(all_results) :
               all_results[i].match_type # "fts" => score_result(all_results[i])[2] = 0

\* Two fts results alike but for the gloss: the one with the gloss came
\* second among the hits and stands first after the sort.
C5_Witness ==
    /\ Sorted
    /\ Len(all_results) = 2
    /\ all_results[1].match_type = "fts" /\ all_results[2].match_type = "fts"
    /\ HasExactGloss(all_results[1]) /\ ~HasExactGloss(all_results[2])
    /\ all_results[1].hsk_level = all_results[2].hsk_level
    /\ all_results[1].fts_rank = all_results[2].fts_rank
    /\ hits[1].id = all_results[2].id

(***************************************************************************)
(* The request from the pagination on, over long result lists              *)
(***************************************************************************)
MaxResults == 41
MaxPage == 4

\* The k-th of the rows of a long dictionary: one character, a pinyin of
\* its own.
LongRow(k) ==
    [id |-> k, traditional |-> <<"Z">>, simplified |-> <<"X">>,
     pinyin_marks |-> [j \in 1..k |-> "a"], definitions |-> <<"a">>,
     has_examples |-> 1, has_stroke |-> 1, hsk_level |-> 0, rank |-> -1]

\* A request after its sort: the exact lookup returned every row of db, the
\* other two none.  Every row has a key of its own, so the merge made one
\* entry of each, and all have the same score, so the sort kept them in
\* rowid order.
PageInit ==
    /\ DecodeIdle
    /\ \E n \in 0..MaxResults : db = [k \in 1..n |-> LongRow(k)]
    /\ q = <<"a">>
    /\ page \in (-MaxPage)..MaxPage
    /\ pc = "paginate"
    /\ hits = [k \in 1..Len(db) |-> Hit(db[k], "exact")]
    /\ seen_ids = 1..Len(db)
    /\ fts_failed = FALSE
    /\ merged_results = [k \in 1..Len(db) |-> Seed(hits[k])]
    /\ all_results = [k \in 1..Len(db) |-> Finalize(merged_results[k])]
    /\ total_results = 0 /\ total_pages = 0 /\ paginated_results = <<>>
    /\ ri = 1 /\ ci = 1 /\ char_cache = <<>> /\ lookups = <<>>
    /\ returned = NotRecorded
    /\ response = "none"

FromPaginate == Paginate \/ EnrichNextResult \/ Render

SpecPaginate == PageInit /\ [][FromPaginate]_vars

\* C6: total_pages is the ceiling of total_results / RESULTS_PER_PAGE, and
\* a page number above total_pages gives an empty slice and the results
\* page all the same.
C6_TotalPagesAndBeyond ==
    pc \in {"enrich", "done"} =>
        /\ total_results = Len(all_results)
        /\ total_pages * RESULTS_PER_PAGE >= total_results
        /\ (total_pages - 1) * RESULTS_PER_PAGE < total_results
        /\ page > total_pages => paginated_results = <<>>
        /\ pc = "done" => response = "results"

\* 21 results make 2 pages; page 3 was asked for and came back empty.
C6_Witness ==
    /\ pc = "done"
    /\ response = "results"
    /\ total_results = RESULTS_PER_PAGE + 1
    /\ total_pages = 2
    /\ page = 3
    /\ paginated_results = <<>>

\* C12 (as claimed): every page number outside 1..total_pages, zero and
\* the negative numbers included, gives an empty slice and the results page.
C12_OutOfRangePageEmpty ==
    pc \in {"enrich", "done"} =>
        /\ page \notin 1..total_pages => paginated_results = <<>>
        /\ pc = "done" => response = "results"

====
